---------------------------- MODULE Spec2Model ----------------------------
(***************************************************************************)
(* Nourish.AI: the live scan loop of the LiveScanner component             *)
(* (src/components/InsightCard.tsx) together with the analysis service it  *)
(* calls (src/unnamed/part_000) and the persona catalog                    *)
(* (src/unnamed/part_001).                                                 *)
(*                                                                         *)
(* Time is a virtual clock in milliseconds.  React state updates made by   *)
(* one handler are committed together with the re-run of the scan effect   *)
(* whose dependency list they touch, so every action below is one handler  *)
(* followed by that commit.                                                *)
(***************************************************************************)
EXTENDS Integers, Sequences, FiniteSets, TLC

(***************************************************************************)
(* Program constants                                                       *)
(***************************************************************************)
\* period of the setInterval that drives the loop
TickPeriod == 1000
\* minimum delay enforced between analyses
MinSpacing == 3000
\* distance into the future at which a quota failure parks the last-run time
CooldownPause == 10000
\* life time of the villain tooltip
VillainTimeout == 4000
\* delays after which handleError opens the key modal
KeyPromptDelayDenied == 1500
KeyPromptDelayMissing == 500

(***************************************************************************)
(* Bounds of the model                                                     *)
(***************************************************************************)
\* length of the explored session, in tick periods
MaxTicks == 15
\* number of gestures the user makes on the persona, villain and audio controls
MaxGestures == 3

\* resolution of the clock
TimeStep == TickPeriod
\* Date.now() at mount; wall-clock time is far beyond MinSpacing, so that
\* the initial lastAnalysisTimeRef of 0 never delays the first analysis
StartTime == MinSpacing
MaxTime == StartTime + MaxTicks * TickPeriod

NULL == "null"
\* the result state holds no AnalysisResult (null) or one
NoResult == <<>>
NoTimer == -1

(***************************************************************************)
(* Persona catalog                                                         *)
(***************************************************************************)
PERSONAS ==
  << [id |-> "diabetic",
      basePrompt |-> "User is Diabetic.",
      subOptions |-> << [id |-> "type1", prompt |-> "Strictly identify exact carb counts."] >>],
     [id |-> "allergies",
      basePrompt |-> "User has severe food allergies.",
      subOptions |-> << [id |-> "gluten", prompt |-> "Flag Wheat, Barley, Rye."] >>] >>

PersonaIds == { PERSONAS[i].id : i \in DOMAIN PERSONAS }

\* PERSONAS.find(x => x.id === id), as the index of the first persona with
\* that id, 0 when there is none (find returns undefined)
findPersona(id) ==
  IF \E i \in DOMAIN PERSONAS : PERSONAS[i].id = id
    THEN CHOOSE i \in DOMAIN PERSONAS :
           /\ PERSONAS[i].id = id
           /\ \A j \in 1..(i-1) : PERSONAS[j].id # id
    ELSE 0

\* p?.subOptions.find(x => x.id === id), as an index into persona p's
\* sub-options, 0 when p is 0 or no sub-option has that id
findSubOption(p, id) ==
  IF p # 0 /\ \E i \in DOMAIN PERSONAS[p].subOptions : PERSONAS[p].subOptions[i].id = id
    THEN CHOOSE i \in DOMAIN PERSONAS[p].subOptions :
           /\ PERSONAS[p].subOptions[i].id = id
           /\ \A j \in 1..(i-1) : PERSONAS[p].subOptions[j].id # id
    ELSE 0

\* the sub-options the overlay offers for a persona
SubOptionIds(pid) ==
  LET p == findPersona(pid)
  IN  IF p = 0 THEN {}
      ELSE { PERSONAS[p].subOptions[i].id : i \in DOMAIN PERSONAS[p].subOptions }

\* an identifier that is neither null nor the empty string
truthy(id) == id # NULL /\ id # ""

\* PERSONAS.flatMap(x => x.subOptions).find(x => x.id === id), as the pair of
\* the indices of the first persona that has such a sub-option and of that
\* sub-option, <<0, 0>> when there is none
findAnySubOption(id) ==
  LET has(i) == findSubOption(i, id) # 0
  IN  IF \E i \in DOMAIN PERSONAS : has(i)
        THEN LET i == CHOOSE i \in DOMAIN PERSONAS : has(i) /\ \A j \in 1..(i-1) : ~has(j)
             IN  <<i, findSubOption(i, id)>>
        ELSE <<0, 0>>

\* mutant: the sub-option is looked up in the whole catalog
personaPromptAnyPersona(pid, sid) ==
  IF truthy(pid) /\ truthy(sid)
    THEN LET p == findPersona(pid)
             s == findAnySubOption(sid)
         IN  IF p # 0 /\ s[2] # 0
               THEN PERSONAS[p].basePrompt \o " SPECIFIC CONTEXT: "
                      \o PERSONAS[s[1]].subOptions[s[2]].prompt
               ELSE NULL
    ELSE NULL

\* the persona prompt the loop composes before calling analyzeImage
personaPrompt(pid, sid) ==
  IF truthy(pid) /\ truthy(sid)
    THEN LET p == findPersona(pid)
             s == findSubOption(p, sid)
         IN  IF p # 0 /\ s # 0
               THEN PERSONAS[p].basePrompt \o " SPECIFIC CONTEXT: "
                      \o PERSONAS[p].subOptions[s].prompt
               ELSE NULL
    ELSE NULL

(***************************************************************************)
(* Analysis service                                                        *)
(***************************************************************************)
\* credentials are character sequences
ApiKeys == { <<>>, <<" ">>, <<"k">> }

RECURSIVE TrimLeft(_)
TrimLeft(s) == IF s # <<>> /\ Head(s) = " " THEN TrimLeft(Tail(s)) ELSE s
RECURSIVE TrimRight(_)
TrimRight(s) == IF s # <<>> /\ s[Len(s)] = " " THEN TrimRight(SubSeq(s, 1, Len(s) - 1)) ELSE s
\* String.prototype.trim
Trim(s) == TrimRight(TrimLeft(s))

\* process.env.API_KEY: the build defines no fallback credential
EnvApiKey == <<>>

\* mutant: the credential is not trimmed
finalApiKeyRaw(key) == IF key # <<>> THEN key ELSE EnvApiKey

\* the credential analyzeImage and analyzeText use; they throw when it is empty
finalApiKey(key) == Trim(IF key # <<>> THEN key ELSE EnvApiKey)

\* messages are word sequences, and includes tests for a word
includes(msg, word) == \E i \in DOMAIN msg : msg[i] = word

\* String.prototype.includes for a phrase of several words
includesPhrase(msg, phrase) ==
  \E i \in 1..(Len(msg) - Len(phrase) + 1) : SubSeq(msg, i, i + Len(phrase) - 1) = phrase

\* rejections of generateContent, by the failure they stem from
Rejections ==
  { [kind |-> "QuotaExceeded", msg |-> <<"429", "Too", "Many", "Requests">>],
    [kind |-> "QuotaExceeded", msg |-> <<"RESOURCE_EXHAUSTED">>],
    [kind |-> "PermissionDenied", msg |-> <<"403", "PERMISSION_DENIED">>],
    [kind |-> "NetworkFailure", msg |-> <<"Failed", "to", "fetch">>] }

\* error messages of the transport
RawErrors == { r.msg : r \in Rejections }

\* analysisSchema.required
Required ==
  { "summary", "audioScript", "shareContent", "healthScore", "insights",
    "radarData", "dietaryClassification", "tradeoffs", "uncertainty", "villains" }

\* the empty response text
NoText == [fields |-> {}, closed |-> FALSE, length |-> 0]

\* response.text: the fields of the object it spells, whether the object is
\* closed or the text ends inside it, and text.length
Texts ==
  { NoText,
    [fields |-> Required, closed |-> TRUE, length |-> 2048],
    [fields |-> Required \ {"villains"}, closed |-> TRUE, length |-> 1024],
    [fields |-> Required \ {"summary"}, closed |-> TRUE, length |-> 1000],
    [fields |-> {"summary"}, closed |-> FALSE, length |-> 403],
    [fields |-> {"summary"}, closed |-> FALSE, length |-> 429],
    [fields |-> {"summary"}, closed |-> FALSE, length |-> 512] }

\* the engines' wordings of the SyntaxError for a text that ends early
Engines == { "V8", "JavaScriptCore" }

SyntaxError(text, engine) ==
  IF engine = "V8"
    THEN <<"Unterminated", "string", "in", "JSON", "at", "position", ToString(text.length)>>
    ELSE <<"JSON", "Parse", "error:", "Unterminated", "string">>

\* the settlement of a call: no error, or the message of the error thrown
NoError == <<>>

MissingKeyError ==
  <<"API", "Key", "is", "missing", ".", "Please", "provide", "one", "in", "settings", ".">>
NoTextError == <<"No", "response", "text", "from", "Gemini">>

\* settlements of generateContent: a rejection or a response text
Settlements ==
  { [rejected |-> TRUE, msg |-> m, text |-> NoText] : m \in RawErrors }
    \cup { [rejected |-> FALSE, msg |-> NoError, text |-> t] : t \in Texts }

\* what the try block of analyzeImage and analyzeText ends with for a
\* settlement: NoError when JSON.parse returns, else the message of the
\* error that reaches its catch
caught(s, engine) ==
  IF s.rejected THEN s.msg
  ELSE IF s.text.length = 0 THEN NoTextError
  ELSE IF ~s.text.closed THEN SyntaxError(s.text, engine)
  ELSE NoError

\* JSON.parse(text) as AnalysisResult: the fields the object has
parse(text) == text.fields

ParseErrors == { SyntaxError(t, e) : t \in { x \in Texts : ~x.closed /\ x.length > 0 }, e \in Engines }
                  \cup {NoTextError}

Outcomes == { caught(s, e) : s \in Settlements, e \in Engines }

\* the failure an error message stems from
kindOf(msg) ==
  IF msg \in ParseErrors THEN "ParseFailure"
  ELSE IF msg = MissingKeyError THEN "MissingCredential"
  ELSE (CHOOSE r \in Rejections : r.msg = msg).kind

QUOTA_EXCEEDED == <<"QUOTA_EXCEEDED">>

\* the error handleGeminiError throws for the error it is given
handleGeminiError(msg) ==
  IF includes(msg, "429") \/ includes(msg, "quota") \/ includes(msg, "RESOURCE_EXHAUSTED")
    THEN QUOTA_EXCEEDED
    ELSE msg

\* analyzeImage for a credential and the settlement of its generateContent
\* call: whether the call is made, the error thrown (NoError if none) and the
\* value returned
analyzeImage(key, s, engine) ==
  IF finalApiKey(key) = <<>>
    THEN [sent |-> FALSE, error |-> MissingKeyError, data |-> {}]
    ELSE LET e == caught(s, engine)
         IN  [sent |-> TRUE,
              error |-> IF e = NoError THEN NoError ELSE handleGeminiError(e),
              data |-> IF e = NoError THEN parse(s.text) ELSE {}]

\* analyzeText differs in the model it calls and in the prompt
analyzeText(key, s, engine) ==
  IF finalApiKey(key) = <<>>
    THEN [sent |-> FALSE, error |-> MissingKeyError, data |-> {}]
    ELSE LET e == caught(s, engine)
         IN  [sent |-> TRUE,
              error |-> IF e = NoError THEN NoError ELSE handleGeminiError(e),
              data |-> IF e = NoError THEN parse(s.text) ELSE {}]

(***************************************************************************)
(* State of one mounted LiveScanner                                        *)
(***************************************************************************)
VARIABLES
  now,                  \* the clock, Date.now()
  mounted,              \* the component is rendered by App
  apiKey,               \* prop
  isStreaming, isAnalyzing, isCoolingDown, result, error,
  lastAnalysisTimeRef,
  activePersonaId, activeSubOptionId, pendingPersonaId,
  activeVillain, isPlayingAudio,
  intervalId,           \* time of the next tick of the live interval, or NoTimer
  villainTimer,         \* time at which the tooltip closes, or NoTimer
  calls,                \* analyzeImage calls whose promise has not settled
  gestures,             \* number of gestures made so far
  quotaAt,              \* history: time of the latest QUOTA_EXCEEDED settlement
  startedAt,            \* history: time at which the latest call was issued,
                        \* kept while less than MinSpacing old
  contextChanged,       \* history: the persona context changed since the last start
  lastEvent,            \* history: the step that led to this state
  app,                  \* the state of the App component around the scanner
  rendered,             \* a TextWithVillains element: its props and its parts
  fragment              \* a pair of identifiers and the persona prompts composed
                        \* for it

state == <<isStreaming, isAnalyzing, isCoolingDown, result, error,
           activePersonaId, activeSubOptionId, pendingPersonaId,
           activeVillain, isPlayingAudio>>
vars == <<now, mounted, apiKey, state, lastAnalysisTimeRef, intervalId,
          villainTimer, calls, gestures, quotaAt, startedAt, contextChanged,
          lastEvent, app, rendered, fragment>>

\* what the scanner does not touch
others == <<app, rendered, fragment>>

QuotaMessage == "High traffic. Slowing down..."
CameraMessage == "Could not access camera. Please ensure permissions are granted."

\* the state of App after construction, in the mode st and with the stored
\* credential key
AppAt(st, key) ==
  [state |-> st, apiKey |-> key, file |-> FALSE, inputText |-> <<>>,
   activePersonaId |-> NULL, activeSubOptionId |-> NULL, pendingPersonaId |-> NULL,
   result |-> NoResult, errorMessage |-> "", isKeyModalOpen |-> FALSE,
   \* pending setTimeout callbacks that open the key modal, by delay
   keyTimers |-> {},
   \* analyzeImage and analyzeText calls of handleAnalyze not yet settled
   pending |-> {}]

\* no TextWithVillains element
NoRender ==
  [text |-> <<>>, villains |-> <<>>, parts |-> <<>>, shown |-> FALSE,
   liveParts |-> <<>>, liveShown |-> FALSE]

\* a persona prompt not composed yet
Unset == "unset"

\* no identifiers to compose a persona prompt for
NoFragment == [personaId |-> NULL, subOptionId |-> NULL, live |-> Unset, oneShot |-> Unset]

\* the state after construction, the clock reading t
InitAt(t) ==
  /\ now = t
  /\ mounted = TRUE
  /\ apiKey \in ApiKeys
  /\ isStreaming = FALSE
  /\ isAnalyzing = FALSE
  /\ isCoolingDown = FALSE
  /\ result = NoResult
  /\ error = NULL
  /\ lastAnalysisTimeRef = 0
  /\ activePersonaId = NULL
  /\ activeSubOptionId = NULL
  /\ pendingPersonaId = NULL
  /\ activeVillain = NULL
  /\ isPlayingAudio = FALSE
  /\ intervalId = NoTimer
  /\ villainTimer = NoTimer
  /\ calls = {}
  /\ gestures = 0
  /\ quotaAt = NoTimer
  /\ startedAt = NoTimer
  /\ contextChanged = FALSE
  /\ lastEvent = [kind |-> "mount"]
  \* <LiveScanner apiKey={apiKey || process.env.API_KEY || ''} .../>
  /\ app = AppAt("LIVE_SCAN", apiKey)
  /\ rendered = NoRender
  /\ fragment = NoFragment

Init == InitAt(StartTime)

(***************************************************************************)
(* The scan effect                                                         *)
(***************************************************************************)
\* dependency list of the capture-and-analyze effect
deps == <<isStreaming, isAnalyzing, apiKey, activePersonaId, activeSubOptionId,
          pendingPersonaId, activeVillain, isPlayingAudio, isCoolingDown>>

\* mutant: the sub-option overlay no longer pauses the loop
pauseScanningNoOverlay ==
  \/ ~isStreaming
  \/ apiKey = <<>>
  \/ activeVillain # NULL
  \/ isPlayingAudio

\* mutant: the loop is also paused while cooling down
pauseScanningWhileCooling ==
  \/ ~isStreaming
  \/ apiKey = <<>>
  \/ pendingPersonaId # NULL
  \/ activeVillain # NULL
  \/ isPlayingAudio
  \/ isCoolingDown

\* the effect's early return: no interval exists while this holds
pauseScanning ==
  \/ ~isStreaming
  \/ apiKey = <<>>
  \/ pendingPersonaId # NULL
  \/ activeVillain # NULL
  \/ isPlayingAudio

\* cooldown exit test of a tick at time t
cooldownOver(t) == t > lastAnalysisTimeRef + MinSpacing

\* mutant: the in-flight flag is not consulted
skipAnalysisNoFlight(t) == t - lastAnalysisTimeRef < MinSpacing

\* mutant: the minimum delay must be exceeded, not reached
skipAnalysisStrict(t) == isAnalyzing \/ (t - lastAnalysisTimeRef <= MinSpacing)

\* single-flight and minimum-delay test of a tick at time t
skipAnalysis(t) == isAnalyzing \/ (t - lastAnalysisTimeRef < MinSpacing)

\* commit of a handler's state updates: the effect's cleanup clears the
\* interval and the effect body creates a new one when a dependency changed
Commit(ticked) ==
  intervalId' =
    IF ~mounted THEN (IF ticked THEN now + TickPeriod ELSE intervalId)
    ELSE IF deps' # deps THEN (IF pauseScanning' THEN NoTimer ELSE now + TickPeriod)
    ELSE IF ticked THEN now + TickPeriod
    ELSE intervalId

\* the AnalysisResult of a call, identified by the context it was issued under
data(c) == [persona |-> c.persona, sub |-> c.sub]

newCall == [persona |-> activePersonaId, sub |-> activeSubOptionId,
            prompt |-> personaPrompt(activePersonaId, activeSubOptionId),
            at |-> now]

\* a state setter: React ignores updates of an unmounted component
setState(old, new) == IF mounted THEN new ELSE old

(***************************************************************************)
(* The catch block of the interval callback and the last-run times         *)
(***************************************************************************)
\* mutant: every caught error is handled as a quota failure
quotaExceededAny(err) == err # NoError

\* the catch block's test of the error it caught
quotaExceeded(err) == err = QUOTA_EXCEEDED

\* mutant: a success leaves the last-run time as it was
successTimeKept(t) == lastAnalysisTimeRef

\* the last-run time a successful analysis at time t records
successTime(t) == t

\* mutant: a quota failure records the current time only
quotaTimeNow(t) == t

\* the last-run time a quota failure at time t records
quotaTime(t) == t + CooldownPause

(***************************************************************************)
(* The interval callback                                                   *)
(***************************************************************************)
\* mutant: the frame is captured without looking at the canvas context
noCaptureVideoOnly(ready, hasCtx) == ~ready

\* no frame is captured: the video has not enough data (return before the
\* in-flight flag is set) or the canvas gives no context (return inside try,
\* finally puts the flag back in the same handler)
noCapture(ready, hasCtx) == ~ready \/ ~hasCtx

\* mutant: the end of the cooldown leaves the reported error
errorKept(cooled) == error

\* the reported error after the cooldown test: setError(null) when the
\* cooldown has ended
errorAfterCooldown(cooled) == IF cooled THEN NULL ELSE error

Tick(ready, hasCtx) ==
  /\ intervalId = now
  /\ LET stillCooling == isCoolingDown /\ ~cooldownOver(now)
         cooled == isCoolingDown /\ cooldownOver(now)
         skipped == stillCooling \/ skipAnalysis(now) \/ noCapture(ready, hasCtx)
         \* analyzeImage is called; it throws before the network call when
         \* the credential is blank, and catch and finally then run at once
         noKey == finalApiKey(apiKey) = <<>>
         quota == ~skipped /\ noKey /\ quotaExceeded(MissingKeyError)
     IN  /\ isCoolingDown' = setState(isCoolingDown, quota \/ (isCoolingDown /\ ~cooled))
         /\ error' = setState(error, IF quota THEN QuotaMessage
                                     ELSE errorAfterCooldown(cooled))
         /\ lastAnalysisTimeRef' = IF quota THEN quotaTime(now) ELSE lastAnalysisTimeRef
         /\ isAnalyzing' = setState(isAnalyzing, isAnalyzing \/ (~skipped /\ ~noKey))
         /\ calls' = IF ~skipped /\ ~noKey THEN calls \cup {newCall} ELSE calls
         /\ startedAt' = IF ~skipped /\ ~noKey THEN now ELSE startedAt
         /\ contextChanged' = (contextChanged /\ skipped)
         /\ lastEvent' = [kind |-> "tick", ready |-> ready /\ hasCtx,
                          cooling |-> stillCooling, analyzing |-> isAnalyzing,
                          forced |-> contextChanged,
                          cooled |-> cooled, started |-> ~skipped,
                          missing |-> ~skipped /\ noKey,
                          \* time since the previous call was issued
                          gap |-> IF skipped \/ startedAt = NoTimer THEN NoTimer
                                  ELSE now - startedAt]
  /\ UNCHANGED <<now, mounted, apiKey, isStreaming, result,
                 activePersonaId, activeSubOptionId, pendingPersonaId,
                 activeVillain, isPlayingAudio, villainTimer, gestures, quotaAt>>
  /\ Commit(TRUE)
  /\ UNCHANGED others

(***************************************************************************)
(* Settlement of an analyzeImage promise: success, catch, finally          *)
(***************************************************************************)
\* mutant: the flag is put back after a success only
inFlightAfterSuccessOnly(failed) == failed

\* finally { setIsAnalyzing(false) }: after a success and after an error
inFlightAfter(failed) == FALSE

\* mutant: the catch block clears the result
resultClearedOnError(c, failed) == IF failed THEN NoResult ELSE <<data(c)>>

\* setResult(data) is the statement after the await: it runs when the call
\* has not thrown, and the catch block has no setResult
resultAfter(c, failed) == IF failed THEN result ELSE <<data(c)>>

Resolve(c, outcome) ==
  /\ c \in calls
  /\ calls' = calls \ {c}
  /\ LET err == IF outcome = NoError THEN NoError ELSE handleGeminiError(outcome)
         failed == err # NoError
         quota == failed /\ quotaExceeded(err)
     IN  /\ result' = setState(result, resultAfter(c, failed))
         /\ lastAnalysisTimeRef' =
              IF ~failed THEN successTime(now)
              ELSE IF quota THEN quotaTime(now)
              ELSE lastAnalysisTimeRef
         /\ error' = setState(error, IF quota THEN QuotaMessage ELSE error)
         /\ isCoolingDown' = setState(isCoolingDown, quota \/ isCoolingDown)
         /\ isAnalyzing' = setState(isAnalyzing, inFlightAfter(failed))
         /\ quotaAt' = IF err = QUOTA_EXCEEDED THEN now ELSE quotaAt
         /\ lastEvent' = [kind |-> "resolve", data |-> data(c),
                          outcome |-> IF err = NoError THEN "ok"
                                      ELSE IF err = QUOTA_EXCEEDED THEN "quota"
                                      ELSE "error",
                          \* the failure the error caught stems from
                          failure |-> IF outcome = NoError THEN "none"
                                      ELSE kindOf(outcome),
                          stale |-> ~mounted \/ c.persona # activePersonaId
                                             \/ c.sub # activeSubOptionId]
  /\ UNCHANGED <<now, mounted, apiKey, isStreaming, activePersonaId,
                 activeSubOptionId, pendingPersonaId, activeVillain,
                 isPlayingAudio, villainTimer, gestures, startedAt,
                 contextChanged>>
  /\ Commit(FALSE)
  /\ UNCHANGED others

(***************************************************************************)
(* Camera start-up                                                         *)
(***************************************************************************)
StartCamera(granted) ==
  /\ mounted /\ ~isStreaming /\ error = NULL
  /\ isStreaming' = granted
  /\ error' = IF granted THEN error ELSE CameraMessage
  /\ lastEvent' = [kind |-> "camera"]
  /\ UNCHANGED <<now, mounted, apiKey, isAnalyzing, isCoolingDown, result,
                 lastAnalysisTimeRef, activePersonaId, activeSubOptionId,
                 pendingPersonaId, activeVillain, isPlayingAudio, villainTimer, calls>>
  /\ Commit(FALSE)
  /\ UNCHANGED <<gestures, quotaAt, startedAt, contextChanged>>
  /\ UNCHANGED others

(***************************************************************************)
(* Persona controls                                                        *)
(***************************************************************************)
handlePersonaClick(personaId) ==
  /\ mounted /\ pendingPersonaId = NULL
  /\ IF activePersonaId = personaId
       THEN /\ activePersonaId' = NULL
            /\ activeSubOptionId' = NULL
            /\ result' = NoResult
            /\ UNCHANGED pendingPersonaId
       ELSE /\ pendingPersonaId' = personaId
            /\ UNCHANGED <<activePersonaId, activeSubOptionId, result>>
  /\ lastEvent' = [kind |-> "persona"]
  /\ UNCHANGED <<now, mounted, apiKey, isStreaming, isAnalyzing, isCoolingDown,
                 error, lastAnalysisTimeRef, activeVillain, isPlayingAudio,
                 villainTimer, calls>>
  /\ Commit(FALSE)
  /\ gestures < MaxGestures
  /\ gestures' = gestures + 1
  /\ UNCHANGED <<quotaAt, startedAt>>
  /\ contextChanged' = (contextChanged \/ activePersonaId = personaId)
  /\ UNCHANGED others

confirmSubOption(subId) ==
  /\ mounted /\ pendingPersonaId # NULL
  /\ subId \in SubOptionIds(pendingPersonaId)
  /\ activePersonaId' = pendingPersonaId
  /\ activeSubOptionId' = subId
  /\ pendingPersonaId' = NULL
  /\ result' = NoResult
  /\ lastEvent' = [kind |-> "persona"]
  /\ UNCHANGED <<now, mounted, apiKey, isStreaming, isAnalyzing, isCoolingDown,
                 error, lastAnalysisTimeRef, activeVillain, isPlayingAudio,
                 villainTimer, calls>>
  /\ Commit(FALSE)
  /\ gestures < MaxGestures
  /\ gestures' = gestures + 1
  /\ UNCHANGED <<quotaAt, startedAt>>
  /\ contextChanged' = TRUE
  /\ UNCHANGED others

\* the X button of the sub-option overlay
dismissSubOptions ==
  /\ mounted /\ pendingPersonaId # NULL
  /\ pendingPersonaId' = NULL
  /\ lastEvent' = [kind |-> "dismiss"]
  /\ UNCHANGED <<now, mounted, apiKey, isStreaming, isAnalyzing, isCoolingDown,
                 result, error, lastAnalysisTimeRef, activePersonaId,
                 activeSubOptionId, activeVillain, isPlayingAudio, villainTimer, calls>>
  /\ Commit(FALSE)
  /\ gestures < MaxGestures
  /\ gestures' = gestures + 1
  /\ UNCHANGED <<quotaAt, startedAt>>
  /\ UNCHANGED contextChanged
  /\ UNCHANGED others

(***************************************************************************)
(* Villain tooltip and audio playback                                      *)
(***************************************************************************)
onVillainClick ==
  /\ mounted /\ result # NoResult /\ pendingPersonaId = NULL /\ activeVillain = NULL
  /\ activeVillain' = "villain"
  /\ villainTimer' = now + VillainTimeout
  /\ lastEvent' = [kind |-> "villain"]
  /\ UNCHANGED <<now, mounted, apiKey, isStreaming, isAnalyzing, isCoolingDown,
                 result, error, lastAnalysisTimeRef, activePersonaId,
                 activeSubOptionId, pendingPersonaId, isPlayingAudio, calls>>
  /\ Commit(FALSE)
  /\ gestures < MaxGestures
  /\ gestures' = gestures + 1
  /\ UNCHANGED <<quotaAt, startedAt>>
  /\ UNCHANGED contextChanged
  /\ UNCHANGED others

villainTimeout ==
  /\ mounted /\ villainTimer = now
  /\ activeVillain' = NULL
  /\ villainTimer' = NoTimer
  /\ lastEvent' = [kind |-> "villain"]
  /\ UNCHANGED <<now, mounted, apiKey, isStreaming, isAnalyzing, isCoolingDown,
                 result, error, lastAnalysisTimeRef, activePersonaId,
                 activeSubOptionId, pendingPersonaId, isPlayingAudio, calls>>
  /\ Commit(FALSE)
  /\ UNCHANGED <<gestures, quotaAt, startedAt, contextChanged>>
  /\ UNCHANGED others

handlePlayAudio ==
  /\ mounted /\ result # NoResult /\ pendingPersonaId = NULL
  /\ isPlayingAudio' = ~isPlayingAudio
  /\ lastEvent' = [kind |-> "audio"]
  /\ UNCHANGED <<now, mounted, apiKey, isStreaming, isAnalyzing, isCoolingDown,
                 result, error, lastAnalysisTimeRef, activePersonaId,
                 activeSubOptionId, pendingPersonaId, activeVillain, villainTimer, calls>>
  /\ Commit(FALSE)
  /\ gestures < MaxGestures
  /\ gestures' = gestures + 1
  /\ UNCHANGED <<quotaAt, startedAt>>
  /\ UNCHANGED contextChanged
  /\ UNCHANGED others

\* utterance.onend / utterance.onerror
onAudioEnd ==
  /\ mounted /\ isPlayingAudio
  /\ isPlayingAudio' = FALSE
  /\ lastEvent' = [kind |-> "audio"]
  /\ UNCHANGED <<now, mounted, apiKey, isStreaming, isAnalyzing, isCoolingDown,
                 result, error, lastAnalysisTimeRef, activePersonaId,
                 activeSubOptionId, pendingPersonaId, activeVillain, villainTimer, calls>>
  /\ Commit(FALSE)
  /\ UNCHANGED <<gestures, quotaAt, startedAt, contextChanged>>
  /\ UNCHANGED others

(***************************************************************************)
(* Stop: App unmounts the scanner                                          *)
(***************************************************************************)
\* mutant: the cleanup leaves the interval running
clearIntervalMissing == intervalId

\* the effect's cleanup
clearInterval == NoTimer

onClose ==
  /\ mounted
  /\ mounted' = FALSE
  \* the component's state and timers are destroyed with it
  /\ isStreaming' = FALSE
  /\ isAnalyzing' = FALSE
  /\ isCoolingDown' = FALSE
  /\ result' = NoResult
  /\ error' = NULL
  /\ activePersonaId' = NULL
  /\ activeSubOptionId' = NULL
  /\ pendingPersonaId' = NULL
  /\ activeVillain' = NULL
  /\ isPlayingAudio' = FALSE
  /\ villainTimer' = NoTimer
  /\ intervalId' = clearInterval
  /\ lastEvent' = [kind |-> "close"]
  /\ UNCHANGED <<now, apiKey, lastAnalysisTimeRef, calls, gestures, quotaAt,
                 startedAt, contextChanged>>
  /\ UNCHANGED others

(***************************************************************************)
(* Passage of time: timers fire when due                                   *)
(***************************************************************************)
Advance ==
  \* the clock is counted from the moment getUserMedia settles
  /\ isStreaming \/ error = CameraMessage \/ ~mounted
  /\ mounted \/ calls # {} \/ intervalId # NoTimer
  /\ now + TimeStep <= MaxTime
  /\ intervalId = NoTimer \/ now + TimeStep <= intervalId
  /\ villainTimer = NoTimer \/ now + TimeStep <= villainTimer
  /\ now' = now + TimeStep
  /\ lastEvent' = [kind |-> "advance"]
  /\ startedAt' = IF startedAt # NoTimer /\ now + TimeStep - startedAt < MinSpacing
                     THEN startedAt ELSE NoTimer
  /\ UNCHANGED <<mounted, apiKey, state, lastAnalysisTimeRef, intervalId,
                 villainTimer, calls>>
  /\ UNCHANGED <<gestures, quotaAt, contextChanged>>
  /\ UNCHANGED others

Next ==
  \/ \E ready \in BOOLEAN, hasCtx \in BOOLEAN : Tick(ready, hasCtx)
  \/ \E c \in calls, outcome \in Outcomes : Resolve(c, outcome)
  \/ \E granted \in BOOLEAN : StartCamera(granted)
  \/ \E personaId \in PersonaIds : handlePersonaClick(personaId)
  \/ \E subId \in UNION { SubOptionIds(p) : p \in PersonaIds } : confirmSubOption(subId)
  \/ dismissSubOptions
  \/ onVillainClick
  \/ villainTimeout
  \/ handlePlayAudio
  \/ onAudioEnd
  \/ onClose
  \/ Advance

Spec == Init /\ [][Next]_vars

(***************************************************************************)
(* The running scanner over unbounded time.  The loop reads the clock only *)
(* through differences with recorded times, so the clock is held at the    *)
(* end of the window and the passage of one step moves the origin of time  *)
(* forward instead; recorded times older than the window stay at its       *)
(* start, lastAnalysisTimeRef's initial 0 among them.                      *)
(***************************************************************************)
LiveInit == InitAt(MaxTime)

rebase(t) == IF t = NoTimer THEN NoTimer
             ELSE IF t >= TimeStep THEN t - TimeStep ELSE 0

Rebase ==
  /\ mounted /\ isStreaming
  /\ now + TimeStep > MaxTime
  /\ intervalId = NoTimer \/ now + TimeStep <= intervalId
  /\ villainTimer = NoTimer \/ now + TimeStep <= villainTimer
  /\ lastAnalysisTimeRef' = rebase(lastAnalysisTimeRef)
  /\ intervalId' = rebase(intervalId)
  /\ villainTimer' = rebase(villainTimer)
  /\ calls' = { [c EXCEPT !.at = rebase(c.at)] : c \in calls }
  /\ quotaAt' = rebase(quotaAt)
  /\ startedAt' = IF startedAt # NoTimer /\ now + TimeStep - startedAt < MinSpacing
                     THEN rebase(startedAt) ELSE NoTimer
  /\ lastEvent' = [kind |-> "advance"]
  /\ UNCHANGED <<now, mounted, apiKey, state, gestures, contextChanged>>
  /\ UNCHANGED others

\* the scanner is not stopped
LiveNext ==
  \/ \E ready \in BOOLEAN, hasCtx \in BOOLEAN : Tick(ready, hasCtx)
  \/ \E c \in calls, outcome \in Outcomes : Resolve(c, outcome)
  \/ \E granted \in BOOLEAN : StartCamera(granted)
  \/ \E personaId \in PersonaIds : handlePersonaClick(personaId)
  \/ \E subId \in UNION { SubOptionIds(p) : p \in PersonaIds } : confirmSubOption(subId)
  \/ dismissSubOptions
  \/ onVillainClick
  \/ villainTimeout
  \/ handlePlayAudio
  \/ onAudioEnd
  \/ Rebase

\* time passes, due timers run their callbacks, every call settles, and the
\* camera delivers a frame to infinitely many of the ticks
LiveSpec ==
  /\ LiveInit /\ [][LiveNext]_vars
  /\ WF_vars(Rebase)
  /\ WF_vars(\E ready \in BOOLEAN, hasCtx \in BOOLEAN : Tick(ready, hasCtx))
  /\ SF_vars(Tick(TRUE, TRUE))
  /\ WF_vars(\E c \in calls, outcome \in Outcomes : Resolve(c, outcome))
  /\ WF_vars(villainTimeout)

(***************************************************************************)
(* One-shot analysis in App (src/unnamed/part_002)                         *)
(***************************************************************************)
\* the scanner is not rendered
scanner == <<now, mounted, apiKey, state, lastAnalysisTimeRef, intervalId,
             villainTimer, calls, gestures, quotaAt, startedAt, contextChanged>>

Unmounted ==
  /\ now = StartTime /\ mounted = FALSE /\ apiKey = <<>>
  /\ isStreaming = FALSE /\ isAnalyzing = FALSE /\ isCoolingDown = FALSE
  /\ result = NoResult /\ error = NULL /\ lastAnalysisTimeRef = 0
  /\ activePersonaId = NULL /\ activeSubOptionId = NULL /\ pendingPersonaId = NULL
  /\ activeVillain = NULL /\ isPlayingAudio = FALSE
  /\ intervalId = NoTimer /\ villainTimer = NoTimer /\ calls = {}
  /\ gestures = 0 /\ quotaAt = NoTimer /\ startedAt = NoTimer
  /\ contextChanged = FALSE
  /\ lastEvent = [kind |-> "mount"]

AppInit ==
  /\ Unmounted
  \* useState(() => localStorage.getItem('nourish_api_key') || '')
  /\ app \in { AppAt("IDLE", key) : key \in ApiKeys }
  /\ rendered = NoRender
  /\ fragment = NoFragment

\* the persona prompt handleAnalyze composes
personaPromptOneShot(pid, sid) ==
  IF truthy(pid) /\ truthy(sid)
    THEN LET p == findPersona(pid)
             s == findSubOption(p, sid)
         IN  IF p # 0 /\ s # 0
               THEN PERSONAS[p].basePrompt \o " SPECIFIC CONTEXT: "
                      \o PERSONAS[p].subOptions[s].prompt
               ELSE NULL
    ELSE NULL

GenericMessage == "We couldn't analyze that. Please try again."
QuotaUsageMessage == "You've exceeded your API Usage Quota. Please try again in a moment or check your billing details."
DeniedMessage == "Permission Denied. Please check your API Key. Ensure it is correct and has access to Gemini models."
MissingMessage == "API Key is missing."

\* the reading of undefined that data.summary.toLowerCase() throws
TypeError == <<"Cannot", "read", "properties", "of", "undefined">>

\* handleError: the message shown and the delay of the setTimeout that opens
\* the key modal, NoTimer when there is none
handleError(err) ==
  IF err = QUOTA_EXCEEDED
    THEN [msg |-> QuotaUsageMessage, timer |-> NoTimer]
  ELSE IF \/ includes(err, "403")
          \/ includes(err, "PERMISSION_DENIED")
          \/ includesPhrase(err, <<"The", "caller", "does", "not", "have", "permission">>)
    THEN [msg |-> DeniedMessage, timer |-> KeyPromptDelayDenied]
  ELSE IF includesPhrase(err, <<"API", "Key", "is", "missing">>)
    THEN [msg |-> MissingMessage, timer |-> KeyPromptDelayMissing]
  ELSE [msg |-> GenericMessage, timer |-> NoTimer]

\* the App state after handleError(err) ran on the state a
afterError(a, err) ==
  LET h == handleError(err)
  IN  [a EXCEPT !.errorMessage = h.msg, !.state = "ERROR",
                !.keyTimers = IF h.timer = NoTimer THEN @ ELSE @ \cup {h.timer}]

\* what the user types into the text area
InputTexts == { <<>>, <<" ">>, <<"oats">> }

handleFileChange ==
  /\ app.state = "IDLE" /\ ~app.file
  /\ app' = [app EXCEPT !.file = TRUE]
  /\ lastEvent' = [kind |-> "input"]
  /\ UNCHANGED <<scanner, rendered, fragment>>

clearFile ==
  /\ app.state = "IDLE" /\ app.file
  /\ app' = [app EXCEPT !.file = FALSE]
  /\ lastEvent' = [kind |-> "input"]
  /\ UNCHANGED <<scanner, rendered, fragment>>

setInputText(text) ==
  /\ app.state = "IDLE" /\ text # app.inputText
  /\ app' = [app EXCEPT !.inputText = text]
  /\ lastEvent' = [kind |-> "input"]
  /\ UNCHANGED <<scanner, rendered, fragment>>

handleAnalyze ==
  /\ app.state = "IDLE"
  /\ app.file \/ Trim(app.inputText) # <<>>
  /\ IF app.apiKey = <<>> /\ EnvApiKey = <<>>
       THEN \* alert and openKeyModal
            /\ app' = [app EXCEPT !.isKeyModalOpen = TRUE]
            /\ lastEvent' = [kind |-> "key"]
       ELSE LET a == [app EXCEPT !.state = "ANALYZING", !.result = NoResult]
                c == [which |-> IF app.file THEN "image" ELSE "text",
                      key |-> app.apiKey,
                      prompt |-> personaPromptOneShot(app.activePersonaId,
                                                      app.activeSubOptionId)]
            IN  IF finalApiKey(app.apiKey) = <<>>
                  THEN \* the call throws at once and the catch block runs
                       /\ app' = afterError(a, MissingKeyError)
                       /\ lastEvent' = [kind |-> "failed", failure |-> "MissingCredential",
                                        payload |-> "none"]
                  ELSE /\ app' = [a EXCEPT !.pending = {c}]
                       /\ lastEvent' = [kind |-> "analyze"]
  /\ UNCHANGED <<scanner, rendered, fragment>>

\* history: how the response text of a settlement stands to the schema
payload(s) ==
  IF s.rejected THEN "none"
  ELSE IF s.text.closed /\ Required \subseteq s.text.fields THEN "valid"
  ELSE "invalid"

\* the awaited call of handleAnalyze settles
handleAnalyzeSettled(c, s, engine) ==
  /\ c \in app.pending
  /\ LET r == IF c.which = "image" THEN analyzeImage(c.key, s, engine)
                                   ELSE analyzeText(c.key, s, engine)
         a == [app EXCEPT !.pending = @ \ {c}]
     IN  IF r.error = NoError
           THEN LET published == [a EXCEPT !.result = <<r.data>>]
                IN  IF "summary" \in r.data
                      THEN /\ app' = [published EXCEPT !.state = "RESULTS"]
                           /\ lastEvent' = [kind |-> "analyzed", failure |-> "none",
                                            payload |-> payload(s)]
                      ELSE \* data.summary.toLowerCase() throws inside the try
                           /\ app' = afterError(published, TypeError)
                           /\ lastEvent' = [kind |-> "failed", failure |-> "ParseFailure",
                                            payload |-> payload(s)]
           ELSE /\ app' = afterError(a, r.error)
                /\ lastEvent' = [kind |-> "failed",
                                 failure |-> kindOf(caught(s, engine)),
                                 payload |-> payload(s)]
  /\ UNCHANGED <<scanner, rendered, fragment>>

\* a setTimeout callback of handleError runs
keyTimerFires(delay) ==
  /\ delay \in app.keyTimers
  /\ app' = [app EXCEPT !.keyTimers = @ \ {delay}, !.isKeyModalOpen = TRUE]
  /\ lastEvent' = [kind |-> "key"]
  /\ UNCHANGED <<scanner, rendered, fragment>>

openKeyModal ==
  /\ app.state # "ANALYZING" /\ ~app.isKeyModalOpen
  /\ app' = [app EXCEPT !.isKeyModalOpen = TRUE]
  /\ lastEvent' = [kind |-> "key"]
  /\ UNCHANGED <<scanner, rendered, fragment>>

\* the backdrop and the X button of the key modal
closeKeyModal ==
  /\ app.isKeyModalOpen
  /\ app' = [app EXCEPT !.isKeyModalOpen = FALSE]
  /\ lastEvent' = [kind |-> "key"]
  /\ UNCHANGED <<scanner, rendered, fragment>>

saveApiKey(tempKey) ==
  /\ app.isKeyModalOpen
  /\ app' = [app EXCEPT !.apiKey = Trim(tempKey), !.isKeyModalOpen = FALSE]
  /\ lastEvent' = [kind |-> "key"]
  /\ UNCHANGED <<scanner, rendered, fragment>>

\* the Back and Try Again buttons
backToIdle ==
  /\ app.state \in {"RESULTS", "ERROR"}
  /\ app' = [app EXCEPT !.state = "IDLE"]
  /\ lastEvent' = [kind |-> "input"]
  /\ UNCHANGED <<scanner, rendered, fragment>>

\* App's handlePersonaClick
selectPersona(personaId) ==
  /\ app.state = "IDLE" /\ app.pendingPersonaId = NULL
  /\ app' = IF app.activePersonaId = personaId
              THEN [app EXCEPT !.activePersonaId = NULL, !.activeSubOptionId = NULL]
              ELSE [app EXCEPT !.pendingPersonaId = personaId]
  /\ lastEvent' = [kind |-> "persona"]
  /\ UNCHANGED <<scanner, rendered, fragment>>

confirmPersonaSelection(subOptionId) ==
  /\ app.state = "IDLE" /\ app.pendingPersonaId # NULL
  /\ subOptionId \in SubOptionIds(app.pendingPersonaId)
  /\ app' = [app EXCEPT !.activePersonaId = app.pendingPersonaId,
                        !.activeSubOptionId = subOptionId,
                        !.pendingPersonaId = NULL]
  /\ lastEvent' = [kind |-> "persona"]
  /\ UNCHANGED <<scanner, rendered, fragment>>

AppNext ==
  \/ handleFileChange
  \/ clearFile
  \/ \E text \in InputTexts : setInputText(text)
  \/ handleAnalyze
  \/ \E c \in app.pending, s \in Settlements, engine \in Engines :
       handleAnalyzeSettled(c, s, engine)
  \/ \E delay \in app.keyTimers : keyTimerFires(delay)
  \/ openKeyModal
  \/ closeKeyModal
  \/ \E tempKey \in ApiKeys : saveApiKey(tempKey)
  \/ backToIdle
  \/ \E personaId \in PersonaIds : selectPersona(personaId)
  \/ \E subOptionId \in UNION { SubOptionIds(p) : p \in PersonaIds } :
       confirmPersonaSelection(subOptionId)

AppSpec == AppInit /\ [][AppNext]_vars

(***************************************************************************)
(* The two compositions of the persona prompt, applied to identifiers      *)
(***************************************************************************)
\* identifiers: null, empty, of the catalog, and of no catalog entry
PersonaIdInputs == { NULL, "", "unknown", "type1" } \cup PersonaIds
SubOptionIdInputs ==
  { NULL, "", "unknown", "diabetic" } \cup UNION { SubOptionIds(p) : p \in PersonaIds }

ResolverInit ==
  /\ Unmounted
  /\ app = AppAt("IDLE", <<>>)
  /\ rendered = NoRender
  /\ fragment \in { [personaId |-> p, subOptionId |-> s, live |-> Unset, oneShot |-> Unset] :
                      p \in PersonaIdInputs, s \in SubOptionIdInputs }

\* the scan loop composes the prompt
composeLive ==
  /\ fragment.live = Unset
  /\ fragment' = [fragment EXCEPT !.live = personaPrompt(fragment.personaId,
                                                          fragment.subOptionId)]
  /\ UNCHANGED <<scanner, lastEvent, app, rendered>>

\* handleAnalyze composes the prompt
composeOneShot ==
  /\ fragment.oneShot = Unset
  /\ fragment' = [fragment EXCEPT !.oneShot = personaPromptOneShot(fragment.personaId,
                                                                   fragment.subOptionId)]
  /\ UNCHANGED <<scanner, lastEvent, app, rendered>>

ResolverNext == composeLive \/ composeOneShot

ResolverSpec == ResolverInit /\ [][ResolverNext]_vars

(***************************************************************************)
(* TextWithVillains: the summary text cut into plain and clickable parts   *)
(***************************************************************************)
\* Strings are sequences of characters; a villain is modelled by its name,
\* the only field the component reads before a click.
Chars == { "a", "A", "." }

\* the longest text rendered
MaxTextLen == 4

\* the most villains of one result
MaxVillains == 2

Strings(n) == UNION { [1..k -> Chars] : k \in 0..n }

\* villain names: empty, of one case or mixed, equal but for the case, one
\* inside another, one overlapping another, with a character special to
\* regular expressions
Names ==
  { <<>>, <<"a">>, <<"A">>, <<"A", ".">>, <<".", "a">>, <<".", "a", ".">> }

VillainLists == UNION { [1..k -> Names] : k \in 0..MaxVillains }

\* String.prototype.toLowerCase, character by character
toLowerCase(str) == [i \in DOMAIN str |-> IF str[i] = "A" THEN "a" ELSE str[i]]

\* Canonicalize of a character under the i flag: its upper case
Canonicalize(ch) == IF ch = "a" THEN "A" ELSE ch

\* mutant: a sort that is not stable, names of one length come out in the
\* reverse of their original order
sortOrderTiesReversed(villains) ==
  LET n == Len(villains)
      before(j, i) == \/ Len(villains[j]) > Len(villains[i])
                      \/ Len(villains[j]) = Len(villains[i]) /\ j > i
      rank(i) == Cardinality({ j \in 1..n : before(j, i) }) + 1
  IN  [k \in 1..n |-> CHOOSE i \in 1..n : rank(i) = k]

\* mutant: no sort, the villains stay in their original order
sortOrderNone(villains) == [k \in DOMAIN villains |-> k]

\* the order sort((a, b) => b.name.length - a.name.length) puts the villains
\* in, as their indices in the original list: longest name first, names of
\* one length in their original order (the sort is stable)
sortOrder(villains) ==
  LET n == Len(villains)
      before(j, i) == \/ Len(villains[j]) > Len(villains[i])
                      \/ Len(villains[j]) = Len(villains[i]) /\ j < i
      rank(i) == Cardinality({ j \in 1..n : before(j, i) }) + 1
  IN  [k \in 1..n |-> CHOOSE i \in 1..n : rank(i) = k]

\* [...villains].sort(...): the sorted copy
sortedVillains(villains) ==
  [k \in DOMAIN villains |-> villains[sortOrder(villains)[k]]]

\* the characters of the class [.*+?^${}()|[\]\\] that texts may hold
SpecialChars == { "." }

\* mutant: the name goes into the pattern as it is
noEscape(string) == [i \in DOMAIN string |-> [ch |-> string[i], escaped |-> FALSE]]

\* escapeRegExp: a backslash before every special character; the result as
\* the pattern atoms it compiles to
escapeRegExp(string) ==
  [i \in DOMAIN string |-> [ch |-> string[i], escaped |-> string[i] \in SpecialChars]]

\* new RegExp(`(${...join('|')})`, 'gi'): one capture group around the
\* alternatives, in the order of the sorted villains
pattern(sorted) ==
  \* the join of no names is the empty string: the group then holds the one
  \* empty alternative
  IF sorted = <<>> THEN << <<>> >>
  ELSE [k \in DOMAIN sorted |-> escapeRegExp(sorted[k])]

\* an atom of the pattern matches a character: a dot that is not escaped
\* matches any character (texts hold no line terminator), any other atom
\* the characters equal to it under Canonicalize
atomMatches(atom, ch) ==
  IF atom.ch = "." /\ ~atom.escaped THEN TRUE
  ELSE Canonicalize(atom.ch) = Canonicalize(ch)

\* alternative alt matches the text from index q (counted from 0)
matchesAt(alt, text, q) ==
  /\ q + Len(alt) <= Len(text)
  /\ \A i \in 1..Len(alt) : atomMatches(alt[i], text[q + i])

\* the alternatives are tried in order, from the k-th on
RECURSIVE execFrom(_, _, _, _)
execFrom(pat, text, q, k) ==
  IF k > Len(pat) THEN -1
  ELSE IF matchesAt(pat[k], text, q) THEN q + Len(pat[k])
  ELSE execFrom(pat, text, q, k + 1)

\* the pattern matched at index q exactly: the end index of the match of
\* the first alternative that matches there, -1 when none does
exec(pat, text, q) == execFrom(pat, text, q, 1)

\* mutant: the substring starts one character late
substringLate(text, from, to) == SubSeq(text, from + 2, to)

\* text.substring(from, to), indices counted from 0
substring(text, from, to) == SubSeq(text, from + 1, to)

RECURSIVE splitNoCaptureLoop(_, _, _, _, _)
splitNoCaptureLoop(text, pat, p, q, A) ==
  IF q >= Len(text) THEN Append(A, substring(text, p, Len(text)))
  ELSE LET e == exec(pat, text, q)
       IN  IF e = -1 \/ e = p
             THEN splitNoCaptureLoop(text, pat, p, q + 1, A)
             ELSE splitNoCaptureLoop(text, pat, e, e, Append(A, substring(text, p, q)))

\* mutant: the pattern has no capture group, the matched texts are dropped
splitNoCapture(text, pat) ==
  IF Len(text) = 0
    THEN IF exec(pat, text, 0) # -1 THEN <<>> ELSE <<text>>
    ELSE splitNoCaptureLoop(text, pat, 0, 0, <<>>)

\* the loop of RegExp.prototype[Symbol.split]: p is the end of the last
\* match, q the index tried next
RECURSIVE splitLoop(_, _, _, _, _)
splitLoop(text, pat, p, q, A) ==
  IF q >= Len(text) THEN Append(A, substring(text, p, Len(text)))
  ELSE LET e == exec(pat, text, q)
       IN  IF e = -1 \/ e = p
             THEN splitLoop(text, pat, p, q + 1, A)
             ELSE splitLoop(text, pat, e, e,
                            Append(Append(A, substring(text, p, q)),
                                   substring(text, q, e)))

\* mutant: the empty text is split into no part at all
splitEmptyToNone(text, pat) ==
  IF Len(text) = 0 THEN <<>> ELSE splitLoop(text, pat, 0, 0, <<>>)

\* text.split(pattern): the texts between the matches and, as the pattern
\* has a capture group, the matched texts between them
split(text, pat) ==
  IF Len(text) = 0
    THEN IF exec(pat, text, 0) # -1 THEN <<>> ELSE <<text>>
    ELSE splitLoop(text, pat, 0, 0, <<>>)

\* sortedVillains.find(v => v.name.toLowerCase() === part.toLowerCase()), as
\* an index into the sorted villains, 0 when there is none
matchedVillain(sorted, part) ==
  IF \E k \in DOMAIN sorted : toLowerCase(sorted[k]) = toLowerCase(part)
    THEN CHOOSE k \in DOMAIN sorted :
           /\ toLowerCase(sorted[k]) = toLowerCase(part)
           /\ \A j \in 1..(k-1) : toLowerCase(sorted[j]) # toLowerCase(part)
    ELSE 0

\* mutant: no early return for an empty list of villains
TextWithVillainsNoGuard(text, villains) ==
  LET sorted == sortedVillains(villains)
      parts  == split(text, pattern(sorted))
  IN  [i \in DOMAIN parts |->
         [text |-> parts[i], villain |-> matchedVillain(sorted, parts[i])]]

\* the children of the element: a part with a matched villain is a
\* clickable span, any other part is plain text
TextWithVillains(text, villains) ==
  IF Len(villains) = 0 THEN << [text |-> text, villain |-> 0] >>
  ELSE LET sorted == sortedVillains(villains)
           parts  == split(text, pattern(sorted))
       IN  [i \in DOMAIN parts |->
              [text |-> parts[i], villain |-> matchedVillain(sorted, parts[i])]]

\* mutant: the parts are looked up in the original list of villains
LiveTextWithVillainsUnsorted(text, villains) ==
  IF Len(villains) = 0 THEN << [text |-> text, villain |-> 0] >>
  ELSE LET parts == split(text, pattern(sortedVillains(villains)))
       IN  [i \in DOMAIN parts |->
              [text |-> parts[i], villain |-> matchedVillain(villains, parts[i])]]

\* the matcher of the live view: the same steps with its own sorted copy,
\* pattern and parts
LiveTextWithVillains(text, villains) ==
  IF Len(villains) = 0 THEN << [text |-> text, villain |-> 0] >>
  ELSE LET sorted == sortedVillains(villains)
           parts  == split(text, pattern(sorted))
       IN  [i \in DOMAIN parts |->
              [text |-> parts[i], villain |-> matchedVillain(sorted, parts[i])]]

MatcherInit ==
  /\ Unmounted
  /\ app = AppAt("IDLE", <<>>)
  /\ fragment = NoFragment
  /\ rendered \in { [text |-> t, villains |-> v, parts |-> <<>>, shown |-> FALSE,
                     liveParts |-> <<>>, liveShown |-> FALSE] :
                      t \in Strings(MaxTextLen), v \in VillainLists }

\* React renders the element
render ==
  /\ ~rendered.shown
  /\ rendered' = [rendered EXCEPT !.parts = TextWithVillains(rendered.text, rendered.villains),
                                  !.shown = TRUE]
  /\ UNCHANGED <<scanner, lastEvent, app, fragment>>

MatcherNext == render

MatcherSpec == MatcherInit /\ [][MatcherNext]_vars

\* React renders the element of the live view for the same props
renderLive ==
  /\ ~rendered.liveShown
  /\ rendered' = [rendered EXCEPT
                    !.liveParts = LiveTextWithVillains(rendered.text, rendered.villains),
                    !.liveShown = TRUE]
  /\ UNCHANGED <<scanner, lastEvent, app, fragment>>

\* the two views given the same text and villains: each renders its element
ViewsNext == render \/ renderLive

ViewsSpec == MatcherInit /\ [][ViewsNext]_vars

TypeOK ==
  /\ now \in StartTime..MaxTime
  /\ mounted \in BOOLEAN
  /\ isAnalyzing \in BOOLEAN /\ isCoolingDown \in BOOLEAN
  /\ intervalId \in {NoTimer} \cup (StartTime..(MaxTime + TickPeriod))

(***************************************************************************)
(* Properties of the live scan loop                                        *)
(***************************************************************************)
\* the suspend signal: an overlay is open or audio is playing
Suspended == pendingPersonaId # NULL \/ activeVillain # NULL \/ isPlayingAudio

\* the step into this state was a tick of the interval
Ticked == lastEvent.kind = "tick"

\* the step into this state was the settlement of a call
Resolved(outcome) == lastEvent.kind = "resolve" /\ lastEvent.outcome = outcome

\* C1: single-flight.  At most one analyzeImage call is in flight at any
\* instant, whatever the ticks, suspensions, persona changes, settlements
\* and re-creations of the interval.
SingleFlight == Cardinality(calls) <= 1

\* a ready tick that the spacing rule would let through is skipped because
\* a call is in flight
SingleFlightWitness ==
  /\ Ticked /\ lastEvent.ready /\ lastEvent.analyzing /\ ~lastEvent.started
  /\ Cardinality(calls) = 1
  /\ now - lastAnalysisTimeRef >= MinSpacing

\* C2: cooldown safety.  After a QUOTA_EXCEEDED settlement at time quotaAt no
\* tick starts an invocation at a time strictly between quotaAt and
\* quotaAt + 10000 ms.
CooldownSafety ==
  (Ticked /\ lastEvent.started /\ quotaAt # NoTimer)
    => ~(now > quotaAt /\ now < quotaAt + CooldownPause)

\* a ready tick inside the window, 3000 ms or more after the quota failure
\* and after a change of persona context, is skipped
CooldownSafetyWitness ==
  /\ Ticked /\ lastEvent.ready /\ ~lastEvent.analyzing /\ ~lastEvent.started
  /\ lastEvent.forced
  /\ quotaAt # NoTimer
  /\ now >= quotaAt + MinSpacing /\ now < quotaAt + CooldownPause

\* C3: cooldown end.  A quota failure at quotaAt sets the cooldown's end to
\* quotaAt + 10000 ms, and a ready tick at or after that time which finds
\* the cooldown active clears it and starts an invocation.
CooldownEnd ==
  /\ (isCoolingDown /\ quotaAt # NoTimer)
       => lastAnalysisTimeRef = quotaAt + CooldownPause
  /\ (Ticked /\ lastEvent.ready /\ (lastEvent.cooling \/ lastEvent.cooled)
        /\ quotaAt # NoTimer /\ now >= quotaAt + CooldownPause)
       => (lastEvent.cooled /\ lastEvent.started)

\* C4: spacing.  A ready tick outside cooldown with nothing in flight starts
\* an invocation if and only if at least 3000 ms have passed since
\* lastAnalysisTimeRef.
Spacing ==
  (Ticked /\ lastEvent.ready /\ ~lastEvent.cooling /\ ~lastEvent.cooled
     /\ ~lastEvent.analyzing)
    => (lastEvent.started <=> now - lastAnalysisTimeRef >= MinSpacing)

\* a tick exactly 3000 ms after the last successful analysis starts one
SpacingWitness ==
  /\ Ticked /\ lastEvent.started /\ ~lastEvent.cooled
  /\ result # NoResult /\ quotaAt = NoTimer
  /\ now = lastAnalysisTimeRef + MinSpacing

\* C5: stale-result rejection.  A call issued under one persona context that
\* settles successfully after the context has changed does not become the
\* published result.
StaleResultDiscarded ==
  (Resolved("ok") /\ lastEvent.stale /\ mounted) => result # <<lastEvent.data>>

\* C6: stop.  Once the scanner is closed there is no interval, no tick runs,
\* and no settlement publishes a result.
StopDiscards ==
  ~mounted => (intervalId = NoTimer /\ ~Ticked /\ result = NoResult)

\* a call in flight at the stop settles successfully after it
StopDiscardsWitness == ~mounted /\ Resolved("ok") /\ result = NoResult

\* C7: one-shot force flag.  The first eligible tick after a change of persona
\* context starts an invocation whatever the time since lastAnalysisTimeRef.
ForceFlagBypassesSpacing ==
  (Ticked /\ lastEvent.forced /\ lastEvent.ready /\ ~lastEvent.cooling
     /\ ~lastEvent.analyzing)
    => lastEvent.started

\* C8: suspension.  While the suspend signal is true there is no interval,
\* and no tick starts an invocation or ends a cooldown.
Suspension ==
  Suspended => /\ intervalId = NoTimer
               /\ Ticked => (~lastEvent.started /\ ~lastEvent.cooled)

\* time passes an instant at which the unsuspended loop would have started
\* an invocation
SuspensionWitness ==
  /\ Suspended /\ mounted /\ isStreaming /\ apiKey # <<>>
  /\ lastEvent.kind = "advance"
  /\ calls = {} /\ ~isCoolingDown
  /\ result # NoResult /\ quotaAt = NoTimer
  /\ now - lastAnalysisTimeRef >= MinSpacing + TickPeriod

\* C9: success outcome.  A successful settlement that is not stale publishes
\* its AnalysisResult, records the settlement time as the last-run time and
\* leaves the scanner idle: nothing in flight, no cooldown.
SuccessOutcome ==
  (Resolved("ok") /\ ~lastEvent.stale)
    => /\ result = <<lastEvent.data>>
       /\ lastAnalysisTimeRef = now
       /\ ~isAnalyzing /\ ~isCoolingDown /\ calls = {}

SuccessOutcomeWitness ==
  /\ Resolved("ok") /\ ~lastEvent.stale
  /\ result = <<lastEvent.data>> /\ lastEvent.data.persona # NULL

SpacingAfterError ==
  (Ticked /\ lastEvent.started /\ startedAt = now /\ ~lastEvent.forced
     /\ lastEvent.gap # NoTimer)
    => lastEvent.gap >= MinSpacing

\* C12: QUOTA_EXCEEDED is recoverable.  In a scanner that is not stopped and
\* whose suspend signal is false again and again, every QUOTA_EXCEEDED
\* settlement is followed by a tick that clears the cooldown and by a tick
\* that issues a new call.
QuotaRecoverable ==
  ([]<>(~Suspended))
    => /\ (Resolved("quota") ~> (Ticked /\ lastEvent.cooled))
       /\ (Resolved("quota") ~> (Ticked /\ lastEvent.started /\ startedAt = now))

\* the tick that ends a cooldown issues a call
QuotaRecoverableWitness ==
  /\ Ticked /\ lastEvent.cooled /\ lastEvent.started /\ startedAt = now
  /\ ~isCoolingDown /\ error = NULL /\ Cardinality(calls) = 1
  /\ quotaAt # NoTimer /\ now - quotaAt > CooldownPause + MinSpacing

\* the credential is absent, empty or made of white space only
Blank(key) == \A i \in DOMAIN key : key[i] = " "

\* C13: missing credential.  With a blank credential and no fallback,
\* analyzeImage and analyzeText throw the missing-credential error without
\* making the network call, whatever the transport would answer; and a tick
\* whose analyzeImage call fails so leaves the calls in flight, the last-run
\* time, the cooldown flag and the reported error as they were.
MissingCredential ==
  /\ \A key \in ApiKeys, s \in Settlements, e \in Engines :
       Blank(key) =>
         /\ ~analyzeImage(key, s, e).sent /\ analyzeImage(key, s, e).error = MissingKeyError
         /\ ~analyzeText(key, s, e).sent /\ analyzeText(key, s, e).error = MissingKeyError
  /\ [][(lastEvent'.kind = "tick" /\ lastEvent'.missing)
          => /\ calls' = calls
             /\ lastAnalysisTimeRef' = lastAnalysisTimeRef
             /\ isCoolingDown' = isCoolingDown /\ error' = error
             /\ isAnalyzing' = isAnalyzing]_vars

\* a ready tick of a scanner whose credential is a blank has called
\* analyzeImage a second time
MissingCredentialWitness ==
  /\ Ticked /\ lastEvent.missing /\ lastEvent.ready
  /\ apiKey = <<" ">> /\ Blank(apiKey)
  /\ calls = {} /\ ~isAnalyzing /\ ~isCoolingDown /\ error = NULL
  /\ now >= StartTime + TickPeriod + TickPeriod

\* C14: parse failure.  A response text that does not spell an object with
\* every required field makes the call a failed attempt, and App never holds
\* a result that lacks a required field.
ParseFailure ==
  /\ (lastEvent.kind \in {"analyzed", "failed"} /\ lastEvent.payload = "invalid")
       => (lastEvent.kind = "failed" /\ app.result = NoResult)
  /\ app.result # NoResult => Required \subseteq app.result[1]

\* C15: tag-only scheduling.  What the scan loop does after a failed call
\* depends on the kind of the failure alone: it enters the cooldown for a
\* QuotaExceeded failure and for no failure of another kind, whatever the
\* text of the error.
TagOnlyScheduling ==
  (lastEvent.kind = "resolve" /\ lastEvent.outcome # "ok" /\ mounted)
    => /\ lastEvent.outcome = "quota" <=> lastEvent.failure = "QuotaExceeded"
       /\ isCoolingDown <=> lastEvent.failure = "QuotaExceeded"

\* the failures after which the credential is to be entered again
ReentryKinds == { "MissingCredential", "PermissionDenied" }

\* the step into this state was an analysis attempt, of the scan loop or of
\* handleAnalyze, that failed with a failure of one of the kinds
FailedWith(kinds) ==
  \/ Ticked /\ lastEvent.missing /\ "MissingCredential" \in kinds
  \/ lastEvent.kind = "resolve" /\ lastEvent.failure \in kinds
  \/ lastEvent.kind = "failed" /\ lastEvent.failure \in kinds

\* C16: credential re-entry.  After an attempt that fails with
\* MissingCredential or PermissionDenied the key modal is eventually open (in
\* the scan loop: when the loop is not suspended for ever), and an attempt
\* that fails otherwise neither opens it nor arms a timer that will.
CredentialReentry ==
  /\ ([]<>(~Suspended)) => (FailedWith(ReentryKinds) ~> app.isKeyModalOpen)
  /\ [][FailedWith({"QuotaExceeded", "NetworkFailure", "ParseFailure"})'
          => /\ app'.isKeyModalOpen = app.isKeyModalOpen
             /\ app'.keyTimers = app.keyTimers]_vars

\* the catalog entries an identifier pair names: a persona and one of its
\* sub-options
Entries(pid, sid) ==
  { e \in (DOMAIN PERSONAS) \X (1..4) :
      /\ PERSONAS[e[1]].id = pid
      /\ e[2] \in DOMAIN PERSONAS[e[1]].subOptions
      /\ PERSONAS[e[1]].subOptions[e[2]].id = sid }

\* the fragment the identifier pair stands for, NULL when it names no entry
Fragment(pid, sid) ==
  IF pid = NULL \/ sid = NULL \/ Entries(pid, sid) = {} THEN NULL
  ELSE LET e == CHOOSE e \in Entries(pid, sid) : TRUE
       IN  PERSONAS[e[1]].basePrompt \o " SPECIFIC CONTEXT: "
             \o PERSONAS[e[1]].subOptions[e[2]].prompt

\* C17: context resolver.  For every pair of identifiers the persona prompt
\* is the persona's base prompt, " SPECIFIC CONTEXT: " and the sub-option's
\* prompt when the pair names a sub-option of a persona of the catalog, and
\* is absent otherwise; the scan loop and handleAnalyze compose the same one.
ContextResolver ==
  /\ fragment.live # Unset
       => fragment.live = Fragment(fragment.personaId, fragment.subOptionId)
  /\ fragment.oneShot # Unset
       => fragment.oneShot = Fragment(fragment.personaId, fragment.subOptionId)
  /\ (fragment.live # Unset /\ fragment.oneShot # Unset)
       => fragment.live = fragment.oneShot

\* both have composed the prompt of a sub-option of a persona
ContextResolverWitness ==
  /\ fragment.personaId = "allergies" /\ fragment.subOptionId = "gluten"
  /\ fragment.live = "User has severe food allergies. SPECIFIC CONTEXT: Flag Wheat, Barley, Rye."
  /\ fragment.oneShot = fragment.live

\* the texts of the parts, concatenated in order
RECURSIVE Concat(_)
Concat(parts) ==
  IF parts = <<>> THEN <<>> ELSE Head(parts).text \o Concat(Tail(parts))

\* C18: term matcher reconstruction.  For every text and every list of
\* villains, the texts of the parts rendered, concatenated in order, are the
\* original text, character by character and in the same case.
Reconstruction == rendered.shown => Concat(rendered.parts) = rendered.text

\* a text of both cases rendered as plain text, a match that keeps its own
\* case, and plain text again
ReconstructionWitness ==
  /\ rendered.shown
  /\ rendered.text = <<".", "a", ".", "A">>
  /\ rendered.villains = << <<"A", ".">> >>
  /\ Len(rendered.parts) = 3
  /\ rendered.parts[2].villain = 1
  /\ rendered.parts[2].text # rendered.villains[1]

\* the name occurs in the text from index i (counted from 0), compared
\* without regard to case
Occurs(name, text, i) ==
  /\ Len(name) > 0
  /\ i + Len(name) <= Len(text)
  /\ toLowerCase(substring(text, i, i + Len(name))) = toLowerCase(name)

\* the index of the text at which part j starts
StartOf(parts, j) == Len(Concat(SubSeq(parts, 1, j - 1)))

\* the character at index c of the text is in a clickable part
InMatch(parts, c) ==
  \E j \in DOMAIN parts :
    /\ parts[j].villain # 0
    /\ StartOf(parts, j) <= c
    /\ c < StartOf(parts, j) + Len(parts[j].text)

\* C19: term matcher completeness.  For every text and list of villains,
\* every occurrence in the text of a villain's name, compared without regard
\* to case, is rendered clickable: each of its characters is in a clickable
\* part, also when the occurrence overlaps an occurrence of another name or
\* lies inside one.
Completeness ==
  rendered.shown =>
    \A k \in DOMAIN rendered.villains, i \in 0..Len(rendered.text) :
      Occurs(rendered.villains[k], rendered.text, i)
        => \A c \in i..(i + Len(rendered.villains[k]) - 1) : InMatch(rendered.parts, c)

\* short is a part of long, compared without regard to case
SubstringOf(short, long) ==
  /\ Len(short) < Len(long)
  /\ \E i \in 0..Len(long) : Occurs(short, long, i)

\* the occurrence of the name from index i is one clickable part
MatchFor(parts, name, i) ==
  \E j \in DOMAIN parts :
    /\ parts[j].villain # 0
    /\ StartOf(parts, j) = i
    /\ toLowerCase(parts[j].text) = toLowerCase(name)

\* C20: longest-match precedence.  When the name of one villain is a part of
\* the longer name of another, every occurrence of the longer name in the
\* text is one clickable part for that name, wherever the shorter name
\* occurs.
LongestMatch ==
  rendered.shown =>
    \A s, l \in DOMAIN rendered.villains :
      SubstringOf(rendered.villains[s], rendered.villains[l])
        => \A i \in 0..Len(rendered.text) :
             Occurs(rendered.villains[l], rendered.text, i)
               => MatchFor(rendered.parts, rendered.villains[l], i)

\* the villains of the original list with the name of the part, compared
\* without regard to case
Namesakes(villains, part) ==
  { i \in DOMAIN villains : toLowerCase(villains[i]) = toLowerCase(part) }

\* C21: duplicate terms.  When several villains have names equal but for the
\* case, every clickable part with that name resolves to the one that comes
\* first in the original list, although the lookup runs over the sorted copy.
FirstOccurrenceWins ==
  rendered.shown =>
    \A j \in DOMAIN rendered.parts :
      rendered.parts[j].villain # 0 =>
        LET i == sortOrder(rendered.villains)[rendered.parts[j].villain]
        IN  /\ i \in Namesakes(rendered.villains, rendered.parts[j].text)
            /\ \A h \in Namesakes(rendered.villains, rendered.parts[j].text) : i <= h

\* two villains named "A" and "a", in that order, and a text with "a": the
\* clickable part resolves to the first
FirstOccurrenceWinsWitness ==
  /\ rendered.shown
  /\ rendered.villains = << <<"A">>, <<"a">> >>
  /\ rendered.text = <<".", "a">>
  /\ Len(rendered.parts) = 3
  /\ rendered.parts[2].text = <<"a">>
  /\ sortOrder(rendered.villains)[rendered.parts[2].villain] = 1

\* C22: term matcher idempotence.  For every text and list of villains, the
\* texts of the parts rendered, put back together and rendered again with
\* the same villains, give the same parts: the same texts, plain or
\* clickable alike, for the same villains.
Idempotence ==
  rendered.shown =>
    TextWithVillains(Concat(rendered.parts), rendered.villains) = rendered.parts

\* a text with two clickable parts and empty plain parts around them is
\* rendered to the same five parts again
IdempotenceWitness ==
  /\ rendered.shown
  /\ rendered.text = <<"a", ".", "A", ".">>
  /\ rendered.villains = << <<"A", ".">>, <<"a">> >>
  /\ Len(rendered.parts) = 5
  /\ rendered.parts[2].villain = 1 /\ rendered.parts[4].villain = 1
  /\ TextWithVillains(Concat(rendered.parts), rendered.villains) = rendered.parts

\* C23: empty-terms law.  For every text, an empty list of villains gives
\* exactly one plain part, with the text of the input, in the results view
\* and in the live view.
EmptyTerms ==
  rendered.villains = <<>> =>
    /\ rendered.shown => rendered.parts = << [text |-> rendered.text, villain |-> 0] >>
    /\ rendered.liveShown
         => rendered.liveParts = << [text |-> rendered.text, villain |-> 0] >>

\* a text rendered with no villains in both views
EmptyTermsWitness ==
  /\ rendered.villains = <<>>
  /\ rendered.text = <<"a", ".", "A", ".">>
  /\ rendered.shown /\ rendered.liveShown
  /\ Len(rendered.parts) = 1 /\ rendered.parts[1].text = rendered.text
  /\ Len(rendered.liveParts) = 1

\* C24, as claimed: empty-text law.  For every list of villains, an empty
\* one or not, the empty text is rendered to no part at all.
EmptyTextNoSpans ==
  (rendered.shown /\ rendered.text = <<>>) => rendered.parts = <<>>

\* C24, amended: for every list of villains the empty text is rendered to no
\* clickable part and to at most one part: to none when a villain has the
\* empty name, and otherwise to one plain part with the empty text.
EmptyText ==
  (rendered.shown /\ rendered.text = <<>>) =>
    IF \E k \in DOMAIN rendered.villains : rendered.villains[k] = <<>>
      THEN rendered.parts = <<>>
      ELSE rendered.parts = << [text |-> <<>>, villain |-> 0] >>

\* the empty text rendered with two villains of non-empty names
EmptyTextWitness ==
  /\ rendered.shown /\ rendered.text = <<>>
  /\ rendered.villains = << <<"a">>, <<".", "a", ".">> >>
  /\ rendered.parts = << [text |-> <<>>, villain |-> 0] >>

\* the lists with the villains of a list in any order
Reorderings(villains) ==
  LET n == Len(villains)
  IN  { [i \in 1..n |-> villains[f[i]]] :
          f \in { g \in [1..n -> 1..n] : \A i, j \in 1..n : g[i] = g[j] => i = j } }

\* the texts of the parts and which of them are clickable
Kinds(parts) ==
  [j \in DOMAIN parts |-> [text |-> parts[j].text, match |-> parts[j].villain # 0]]

\* C25: order independence.  For every text and list of villains, the list
\* in any other order gives parts of the same texts, the same ones of them
\* clickable; two names that both occur are both clickable in either order.
OrderIndependence ==
  rendered.shown =>
    \A permuted \in Reorderings(rendered.villains) :
      Kinds(TextWithVillains(rendered.text, permuted)) = Kinds(rendered.parts)

\* the shorter name listed first: both names are clickable, as they are
\* with the longer name listed first
OrderIndependenceWitness ==
  /\ rendered.shown
  /\ rendered.text = <<".", "a", ".", "a">>
  /\ rendered.villains = << <<"a">>, <<".", "a", ".">> >>
  /\ Len(rendered.parts) = 5
  /\ rendered.parts[2].villain = 1 /\ rendered.parts[4].villain = 2
  /\ Kinds(TextWithVillains(rendered.text, << <<".", "a", ".">>, <<"a">> >>))
       = Kinds(rendered.parts)

\* C28: the two term matchers are equivalent.  For every text and list of
\* villains the live view and the results view render the same parts: the
\* same texts, the same ones clickable, each for the same villain.
MatchersEquivalent ==
  (rendered.shown /\ rendered.liveShown) => rendered.liveParts = rendered.parts

\* both views have rendered a text with a clickable part for the villain
\* that the sort moved to the front
MatchersEquivalentWitness ==
  /\ rendered.shown /\ rendered.liveShown
  /\ rendered.text = <<"A", ".", "a">>
  /\ rendered.villains = << <<"a">>, <<"A", ".">> >>
  /\ rendered.liveParts = << [text |-> <<>>, villain |-> 0],
                             [text |-> <<"A", ".">>, villain |-> 1],
                             [text |-> <<>>, villain |-> 0],
                             [text |-> <<"a">>, villain |-> 2],
                             [text |-> <<>>, villain |-> 0] >>
  /\ rendered.parts = rendered.liveParts

\* the step is a tick that is past the cooldown, single-flight and spacing
\* tests and captures no frame
NotReadyStep ==
  /\ lastEvent'.kind = "tick" /\ ~lastEvent'.ready
  /\ ~(isCoolingDown /\ ~cooldownOver(now))
  /\ ~skipAnalysis(now)

\* C26, as claimed: not-ready capture.  A tick that is past the suspend,
\* cooldown, single-flight and spacing tests and finds the source not ready
\* starts no call and changes nothing: the in-flight flag, the last-run
\* time, the result and the reported error are as before.
NotReadyNoEffect ==
  [][NotReadyStep => /\ calls' = calls
                     /\ isAnalyzing' = isAnalyzing
                     /\ lastAnalysisTimeRef' = lastAnalysisTimeRef
                     /\ result' = result
                     /\ error' = error]_vars

\* C26, amended: such a tick starts no call and leaves the in-flight flag,
\* the last-run time and the result as they were; the reported error too,
\* unless the tick is the one that ends the cooldown, which has cleared the
\* cooldown and the error before it looks at the source.
NotReadySkips ==
  [][NotReadyStep => /\ calls' = calls
                     /\ isAnalyzing' = isAnalyzing
                     /\ lastAnalysisTimeRef' = lastAnalysisTimeRef
                     /\ result' = result
                     /\ error' = (IF isCoolingDown THEN NULL ELSE error)
                     /\ isCoolingDown' = FALSE]_vars

\* a tick has ended the cooldown of a quota failure and found the source
\* not ready
NotReadySkipsWitness ==
  /\ Ticked /\ ~lastEvent.ready /\ lastEvent.cooled /\ ~lastEvent.started
  /\ quotaAt # NoTimer
  /\ ~isCoolingDown /\ error = NULL /\ ~isAnalyzing /\ calls = {}

\* C27: cooldown and reported failure move together.  The tick that ends
\* the cooldown also clears the reported error, and in every state of the
\* scanner the quota failure is reported exactly while the cooldown is on.
CooldownWithFailure ==
  /\ (error = QuotaMessage) <=> isCoolingDown
  /\ (Ticked /\ lastEvent.cooled) => (~isCoolingDown /\ error = NULL)

\* a tick has ended the cooldown of a quota failure and cleared the error
CooldownWithFailureWitness ==
  /\ Ticked /\ lastEvent.cooled /\ lastEvent.started
  /\ quotaAt # NoTimer /\ now - quotaAt > CooldownPause + MinSpacing
  /\ ~isCoolingDown /\ error = NULL

\* C29: the in-flight flag is always released.  In a scanner that is not
\* stopped, whenever the in-flight flag is set the call settles, with a
\* result or with any error, and the flag is false after it.
InFlightReleased ==
  isAnalyzing ~> (lastEvent.kind = "resolve" /\ ~isAnalyzing)

\* a call has failed with an error other than the quota failure and the
\* flag is false again
InFlightReleasedWitness ==
  /\ lastEvent.kind = "resolve" /\ lastEvent.outcome = "error"
  /\ ~isAnalyzing /\ calls = {} /\ ~isCoolingDown

\* C30: failure leaves the published result unchanged.  A call of the scan
\* loop that fails, with the quota failure or any other error, neither
\* clears nor replaces the result; while the scanner is shown only a call
\* that succeeds or a change of the persona context changes the result.
FailureKeepsResult ==
  [][/\ (lastEvent'.kind = "resolve" /\ lastEvent'.outcome # "ok") => result' = result
     /\ (mounted' /\ result' # result)
          => \/ lastEvent'.kind = "resolve" /\ lastEvent'.outcome = "ok"
             \/ lastEvent'.kind = "persona"]_vars

\* a call has failed with the quota failure and the result of the call
\* before it is still there
FailureKeepsResultWitness ==
  /\ lastEvent.kind = "resolve" /\ lastEvent.outcome = "quota"
  /\ mounted /\ result # NoResult /\ isCoolingDown

=============================================================================
